---- MODULE Spec2Model ----
(***************************************************************************)
(* Model of bow_dbnl.py: the batch pipeline                                *)
(*   get_files -> pick_random -> extract_tei -> create_bow -> output_bow.  *)
(*                                                                         *)
(* Text is modelled at token level.  A document is a sequence of tokens:   *)
(* the body marker "<body>", another tag "<p>", the sentence terminator    *)
(* ".", the entity "&amp;" and words.  A cleaned sentence (a string of     *)
(* words separated by single spaces) is the sequence of its words, which   *)
(* is what nltk.word_tokenize returns for it.                              *)
(***************************************************************************)
EXTENDS Integers, Sequences, FiniteSets, TLC

\* ------------------------------------------------------------------ bounds
\* Largest number of directory entries below the root path.
MaxFiles == 3
\* Largest number of tokens in one document (stage specification of extract_tei).
MaxDocLen == 4
\* Largest number of tokens in one document in the whole-run specification.
RunDocLen == 2
\* Largest number of directory entries in the whole-run specification.
RunFiles == 2
\* Largest number of word tokens over all sentences (stage specification of create_bow).
MaxTokens == 4

\* ------------------------------------------------------------ vocabulary
BODY == "<body>"
TAG == "<p>"
STOP == "."
AMP == "&amp;"
Tokens == {BODY, TAG, STOP, AMP, "to", "Cat", "cat", "dog"}
Words == {"to", "cat", "dog", "the"}
Stems == {"a", "b", "c"}
Exts == {".xml", ".txt"}
Entries == [stem : Stems, ext : Exts]

Range(s) == {s[i] : i \in 1..Len(s)}
NoDup(s) == \A i, j \in 1..Len(s) : i # j => s[i] # s[j]
SeqsUpTo(S, n) == UNION {[1..m -> S] : m \in 0..n}
Prefixes(s) == {SubSeq(s, 1, m) : m \in 0..Len(s)}
RECURSIVE Flatten(_)
Flatten(ss) == IF ss = <<>> THEN <<>> ELSE Head(ss) \o Flatten(Tail(ss))
RECURSIVE Occurrences(_, _)
Occurrences(w, s) ==
    IF s = <<>> THEN 0
    ELSE (IF Head(s) = w THEN 1 ELSE 0) + Occurrences(w, Tail(s))

\* os.walk yields the entries below the root in traversal order, each once.
Walks == {w \in SeqsUpTo(Entries, MaxFiles) : NoDup(w)}
Docs(n) == SeqsUpTo(Tokens, n)
\* The sentences of the word sequence ws when a sentence ends after word i
\* exactly if ends[i] (and after the last word).
RECURSIVE CutFrom(_, _, _, _)
CutFrom(ws, ends, i, cur) ==
    IF i > Len(ws) THEN (IF cur = <<>> THEN <<>> ELSE <<cur>>)
    ELSE IF ends[i] THEN <<Append(cur, ws[i])>> \o CutFrom(ws, ends, i + 1, <<>>)
    ELSE CutFrom(ws, ends, i + 1, Append(cur, ws[i]))
\* Sequences of non-empty sentences (each a sequence of words) of at most n words in
\* all.
FlatTexts(n) ==
    UNION {{CutFrom(ws, ends, 1, <<>>) : ends \in [1..Len(ws) -> BOOLEAN]} :
           ws \in SeqsUpTo(Words, n)}

VARIABLES
    pc,             \* position in __main__ / in the running function
    root_ok,        \* sys.argv[1] exists and is a readable directory
    arg_list,       \* the list object get_files built and pick_random was passed
    tei_files,      \* __main__'s tei_files
    DOCS_USED,      \* module constant, line 59
    BOW_LENGTH,     \* module constant, line 54
    tei,            \* extract_tei: content of the file being processed
    done_files,     \* extract_tei: number of loop iterations completed
    flat_text,      \* extract_tei's flat_text, then __main__'s
    wi,             \* create_bow: number of words of flat_text processed
    dict_wordfreq,  \* create_bow's OrderedDict, as <<word, count>> in insertion order
    dict_sorted,    \* create_bow's result
    written,        \* output_bow: lines passed to outputf.write so far
    out_old,        \* OUTPUT_TXT on disk before the run
    out_disk        \* OUTPUT_TXT on disk now

vars == <<pc, root_ok, arg_list, tei_files, DOCS_USED, BOW_LENGTH, tei, done_files,
          flat_text, wi, dict_wordfreq, dict_sorted, written, out_old, out_disk>>

NoFile == [exists |-> FALSE, lines |-> <<>>]
OldFile == [exists |-> TRUE, lines |-> <<<<"old", 1>>>>]

\* ---------------------------------------------------------------- get_files
\* Lines 80-88: the paths of the entries whose name ends with '.xml', in walk
\* order.  os.walk swallows the error of a root it cannot list and yields nothing.
EndsWithXml(e) == e.ext = ".xml"
get_files(ok, walk) == IF ok THEN SelectSeq(walk, EndsWithXml) ELSE <<>>

\* -------------------------------------------------------------- pick_random
\* Lines 181-182 without the test K <= 0.
DocsUsedNoFloor(K, len) == IF K > len THEN len ELSE K
\* Lines 181-182.
DocsUsed(K, len) == IF K <= 0 \/ K > len THEN len ELSE K
\* Draws with replacement, as [random.choice(l) for _ in l] would.
PermsWithReplacement(n) == [1..n -> 1..n]
\* The orders random.shuffle can leave a list of n elements in: position i of the
\* shuffled list holds the element that was at position p[i].
\* random.seed(4) (line 65) fixes which one a given run gets; every order is
\* allowed for here.
Perms(n) == {p \in [1..n -> 1..n] : \A i, j \in 1..n : i # j => p[i] # p[j]}
\* Line 183: random.shuffle(tei_files) rearranges the list object itself.
Shuffle(list, p) == [i \in 1..Len(list) |-> list[p[i]]]
\* Line 185: list[:k].
Slice(list, k) ==
    IF k >= 0 THEN SubSeq(list, 1, IF k < Len(list) THEN k ELSE Len(list))
    ELSE SubSeq(list, 1, IF Len(list) + k > 0 THEN Len(list) + k ELSE 0)

\* -------------------------------------------------------------- extract_tei
Contains(s, t) == \E i \in 1..Len(s) : s[i] = t
FirstIndex(s, t) == CHOOSE i \in 1..Len(s) : s[i] = t /\ \A j \in 1..(i - 1) : s[j] # t
\* Line 117: re.split(r'<body>', tei): the pieces between the markers, in order.
RECURSIVE SplitBody(_)
SplitBody(s) ==
    IF ~Contains(s, BODY) THEN <<s>>
    ELSE LET i == FirstIndex(s, BODY)
         IN  <<SubSeq(s, 1, i - 1)>> \o SplitBody(SubSeq(s, i + 1, Len(s)))
\* Line 120: re.sub(r'<[^<]+>', '', ...).
IsTag(t) == t \in {TAG, BODY}
NotTag(t) == ~IsTag(t)
RemoveTags(s) == SelectSeq(s, NotTag)
\* Line 124: .lower().
LowerToken(t) == IF t = "Cat" THEN "cat" ELSE t
Lower(s) == [i \in 1..Len(s) |-> LowerToken(s[i])]
\* Line 124: nltk.sent_tokenize: a sentence ends with its terminator; no sentence
\* is empty.
RECURSIVE SentTokenize(_)
SentTokenize(s) ==
    IF s = <<>> THEN <<>>
    ELSE IF ~Contains(s, STOP) THEN <<s>>
    ELSE LET i == FirstIndex(s, STOP)
         IN  <<SubSeq(s, 1, i)>> \o SentTokenize(SubSeq(s, i + 1, Len(s)))
\* Lines 126-129: entities and non-word characters become blanks, runs of blanks
\* one blank: the words of the sentence remain.
IsWord(t) == t \notin {AMP, STOP}
CleanSentence(sen) == SelectSeq(sen, IsWord)
\* Line 120: the piece of the document that is processed.
BodyText(pieces) == pieces[2]
\* Lines 117-130 for one document that has a second piece.
Sentences(text) ==
    LET raw == SentTokenize(Lower(RemoveTags(text)))
    IN  [i \in 1..Len(raw) |-> CleanSentence(raw[i])]

\* --------------------------------------------------------------- create_bow
\* Line 147: nltk.word_tokenize of every sentence, in loop order.
AllWords(ft) == Flatten(ft)
\* Line 150 with >= for >.
KeptTwo(word) == Len(word) >= 2
\* Line 150.
Kept(word) == Len(word) > 2
Keys(d) == {d[i][1] : i \in 1..Len(d)}
Index(d, w) == CHOOSE i \in 1..Len(d) : d[i][1] = w
Value(d, w) == d[Index(d, w)][2]
\* Lines 151-154 with the else branch assigning 1 as well.
IncrementReset(d, w) ==
    IF w \notin Keys(d) THEN Append(d, <<w, 1>>)
    ELSE [d EXCEPT ![Index(d, w)] = <<w, 1>>]
\* Lines 151-154.
Increment(d, w) ==
    IF w \notin Keys(d) THEN Append(d, <<w, 1>>)
    ELSE [d EXCEPT ![Index(d, w)] = <<w, d[Index(d, w)][2] + 1>>]
\* An ascending sort read backwards: items of equal count change places.
InsertDescUnstable(sorted, item) ==
    LET before == {i \in 1..Len(sorted) : sorted[i][2] > item[2]}
        n == Cardinality(before)
    IN  SubSeq(sorted, 1, n) \o <<item>> \o SubSeq(sorted, n + 1, Len(sorted))
\* Lines 159-160: sorted(..., key=count, reverse=True) is stable: items of equal
\* count keep their order.
InsertDesc(sorted, item) ==
    LET before == {i \in 1..Len(sorted) : sorted[i][2] >= item[2]}
        n == Cardinality(before)
    IN  SubSeq(sorted, 1, n) \o <<item>> \o SubSeq(sorted, n + 1, Len(sorted))
RECURSIVE SortDescFrom(_, _)
SortDescFrom(acc, d) ==
    IF d = <<>> THEN acc ELSE SortDescFrom(InsertDesc(acc, Head(d)), Tail(d))
\* Lines 159-160 left out: the table in insertion order.
SortNone(d) == d
SortDesc(d) == SortDescFrom(<<>>, d)

\* --------------------------------------------------------------- output_bow
\* Lines 166-167 without the test N <= 0.
BowLengthNoFloor(N, len) == IF N > len THEN len ELSE N
\* Lines 166-167.
BowLength(N, len) == IF N <= 0 \/ N > len THEN len ELSE N
\* Line 176: the record word<TAB>count<NEWLINE>, as its two fields.
Line(item) == <<item[1], item[2]>>

\* ------------------------------------------------------------------ actions
Path(stem) == [stem |-> stem, ext |-> ".xml"]

\* Line 189: tei_files = get_files(sys.argv[1]); W: what os.walk may yield.
GetFiles(W) ==
    /\ pc = "get_files"
    /\ \E walk \in W :
          /\ arg_list' = get_files(root_ok, walk)
          /\ tei_files' = get_files(root_ok, walk)
    /\ pc' = "pick_random"
    /\ UNCHANGED <<root_ok, DOCS_USED, BOW_LENGTH, tei, done_files, flat_text, wi,
                   dict_wordfreq, dict_sorted, written, out_old, out_disk>>

\* Line 192: tei_files = pick_random(tei_files, DOCS_USED).  The list object passed
\* in is shuffled in place; __main__'s tei_files becomes the slice returned.
PickRandom ==
    /\ pc = "pick_random"
    /\ \E p \in Perms(Len(arg_list)) :
          /\ arg_list' = Shuffle(arg_list, p)
          /\ tei_files' = Slice(arg_list', DocsUsed(DOCS_USED, Len(arg_list)))
    /\ pc' = "extract_tei"
    /\ UNCHANGED <<root_ok, DOCS_USED, BOW_LENGTH, tei, done_files, flat_text, wi,
                   dict_wordfreq, dict_sorted, written, out_old, out_disk>>

\* Lines 109-130: one iteration of extract_tei's loop; D: what the file may hold.
\* A document without the marker has one piece, and tei_body[1] raises IndexError.
ExtractTei(D) ==
    /\ pc = "extract_tei"
    /\ done_files < Len(tei_files)
    /\ \E doc \in D :
          /\ tei' = doc
          /\ IF Len(SplitBody(doc)) < 2
             THEN /\ pc' = "failed"
                  /\ UNCHANGED <<flat_text, done_files>>
             ELSE /\ pc' = pc
                  /\ flat_text' = flat_text \o Sentences(BodyText(SplitBody(doc)))
                  /\ done_files' = done_files + 1
    /\ UNCHANGED <<root_ok, arg_list, tei_files, DOCS_USED, BOW_LENGTH, wi,
                   dict_wordfreq, dict_sorted, written, out_old, out_disk>>

\* Lines 131, 194: the loop is over; extract_tei returns flat_text and its locals
\* are gone.  Line 195 enters create_bow.
ExtractReturn ==
    /\ pc = "extract_tei"
    /\ done_files = Len(tei_files)
    /\ pc' = "create_bow"
    /\ tei' = <<>>
    /\ done_files' = 0
    /\ UNCHANGED <<root_ok, arg_list, tei_files, DOCS_USED, BOW_LENGTH, flat_text, wi,
                   dict_wordfreq, dict_sorted, written, out_old, out_disk>>

\* Lines 149-154: one word of one sentence.
CountWord ==
    /\ pc = "create_bow"
    /\ wi < Len(AllWords(flat_text))
    /\ LET word == AllWords(flat_text)[wi + 1]
       IN  dict_wordfreq' = IF Kept(word) THEN Increment(dict_wordfreq, word)
                            ELSE dict_wordfreq
    /\ wi' = wi + 1
    /\ UNCHANGED <<pc, root_ok, arg_list, tei_files, DOCS_USED, BOW_LENGTH, tei,
                   done_files, flat_text, dict_sorted, written, out_old, out_disk>>

\* Lines 159-161, 195: all words are counted; create_bow sorts and returns, and its
\* locals are gone.  Line 196 enters output_bow.
SortBow ==
    /\ pc = "create_bow"
    /\ wi = Len(AllWords(flat_text))
    /\ dict_sorted' = SortDesc(dict_wordfreq)
    /\ dict_wordfreq' = <<>>
    /\ wi' = 0
    /\ pc' = "output_bow"
    /\ UNCHANGED <<root_ok, arg_list, tei_files, DOCS_USED, BOW_LENGTH, tei,
                   done_files, flat_text, written, out_old, out_disk>>

\* Line 174: open(OUTPUT_TXT, 'w') creates the file or truncates it; it raises when
\* the directory of OUTPUT_TXT is missing or not writable.
OutputOpen ==
    /\ pc = "output_bow"
    /\ \E dir_ok \in BOOLEAN :
          IF dir_ok
          THEN /\ out_disk' = [exists |-> TRUE, lines |-> <<>>]
               /\ pc' = "writing"
          ELSE /\ out_disk' = out_disk
               /\ pc' = "failed"
    /\ UNCHANGED <<root_ok, arg_list, tei_files, DOCS_USED, BOW_LENGTH, tei, done_files,
                   flat_text, wi, dict_wordfreq, dict_sorted, written, out_old>>

\* Lines 175-176: one iteration of the write loop.
OutputWrite ==
    /\ pc = "writing"
    /\ Len(written) < BowLength(BOW_LENGTH, Len(dict_sorted))
    /\ written' = Append(written, Line(dict_sorted[Len(written) + 1]))
    /\ UNCHANGED <<pc, root_ok, arg_list, tei_files, DOCS_USED, BOW_LENGTH, tei,
                   done_files, flat_text, wi, dict_wordfreq, dict_sorted, out_old,
                   out_disk>>

\* Lines 174, 198: the loop is over; leaving the with block flushes and closes the
\* file, and the run ends.
OutputClose ==
    /\ pc = "writing"
    /\ Len(written) = BowLength(BOW_LENGTH, Len(dict_sorted))
    /\ out_disk' = [exists |-> TRUE, lines |-> written]
    /\ pc' = "done"
    /\ UNCHANGED <<root_ok, arg_list, tei_files, DOCS_USED, BOW_LENGTH, tei, done_files,
                   flat_text, wi, dict_wordfreq, dict_sorted, written, out_old>>

\* The process is terminated from outside, at any point of the run.  Of the lines
\* written to an open, buffered file, those flushed so far are on disk.
Terminate ==
    /\ pc \notin {"done", "failed", "killed"}
    /\ pc' = "killed"
    /\ IF pc = "writing"
       THEN \E pre \in Prefixes(written) : out_disk' = [exists |-> TRUE, lines |-> pre]
       ELSE out_disk' = out_disk
    /\ UNCHANGED <<root_ok, arg_list, tei_files, DOCS_USED, BOW_LENGTH, tei, done_files,
                   flat_text, wi, dict_wordfreq, dict_sorted, written, out_old>>

\* ----------------------------------------------------------- specifications
\* The state when __main__ starts.
InitRun(Ks, Ns, Olds) ==
    /\ pc = "get_files"
    /\ root_ok \in BOOLEAN
    /\ DOCS_USED \in Ks
    /\ BOW_LENGTH \in Ns
    /\ out_old \in Olds
    /\ out_disk = out_old
    /\ arg_list = <<>>
    /\ tei_files = <<>>
    /\ tei = <<>>
    /\ done_files = 0
    /\ flat_text = <<>>
    /\ wi = 0
    /\ dict_wordfreq = <<>>
    /\ dict_sorted = <<>>
    /\ written = <<>>

\* The whole run.
RunWalks == {w \in Walks : Len(w) <= RunFiles}
Init == InitRun(-1..(RunFiles + 1), -1..(RunDocLen + 1), {NoFile, OldFile})
Next ==
    \/ GetFiles(RunWalks)
    \/ PickRandom
    \/ ExtractTei(Docs(RunDocLen))
    \/ ExtractReturn
    \/ CountWord
    \/ SortBow
    \/ OutputOpen
    \/ OutputWrite
    \/ OutputClose
    \/ Terminate
Spec == Init /\ [][Next]_vars

\* Discovery and sampling, over every walk of up to MaxFiles entries.
InitSample == InitRun(-1..(MaxFiles + 1), {0}, {NoFile})
NextSample == GetFiles(Walks) \/ PickRandom
SpecSample == InitSample /\ [][NextSample]_vars

\* extract_tei on one file, over every document of up to MaxDocLen tokens.
InitExtract ==
    /\ pc = "extract_tei"
    /\ root_ok = TRUE
    /\ DOCS_USED = 0
    /\ BOW_LENGTH = 0
    /\ out_old = NoFile
    /\ out_disk = out_old
    /\ arg_list = <<Path("a")>>
    /\ tei_files = <<Path("a")>>
    /\ tei = <<>>
    /\ done_files = 0
    /\ flat_text = <<>>
    /\ wi = 0
    /\ dict_wordfreq = <<>>
    /\ dict_sorted = <<>>
    /\ written = <<>>
NextExtract == ExtractTei(Docs(MaxDocLen)) \/ ExtractReturn
SpecExtract == InitExtract /\ [][NextExtract]_vars

\* create_bow and output_bow, over every sentence list of up to MaxTokens words.
InitBow ==
    /\ pc = "create_bow"
    /\ root_ok = TRUE
    /\ DOCS_USED = 0
    /\ BOW_LENGTH \in -1..(Cardinality({w \in Words : Kept(w)}) + 1)
    /\ out_old = NoFile
    /\ out_disk = out_old
    /\ arg_list = <<Path("a")>>
    /\ tei_files = <<Path("a")>>
    /\ tei = <<>>
    /\ done_files = 0
    /\ flat_text \in FlatTexts(MaxTokens)
    /\ wi = 0
    /\ dict_wordfreq = <<>>
    /\ dict_sorted = <<>>
    /\ written = <<>>
NextBow == CountWord \/ SortBow \/ OutputOpen \/ OutputWrite \/ OutputClose
SpecBow == InitBow /\ [][NextBow]_vars

\* =================================================================== claims
Min(a, b) == IF a < b THEN a ELSE b
Terminal == {"done", "failed", "killed"}
\* create_bow has returned its table.
Counted == pc \in {"output_bow", "writing", "done"}
\* This step is pick_random running and returning to __main__.
Sampled == pc = "pick_random" /\ pc' = "extract_tei"
NonIncreasing(items) == \A i \in 1..(Len(items) - 1) : items[i][2] >= items[i + 1][2]
IsPermutation(a, b) ==
    /\ Len(a) = Len(b)
    /\ \A x \in Range(a) \cup Range(b) :
          Cardinality({i \in 1..Len(a) : a[i] = x}) = Cardinality({i \in 1..Len(b) : b[i] = x})
\* Sum over the sentences of the occurrences of w in the sentence.
RECURSIVE TotalOccurrences(_, _)
TotalOccurrences(w, ft) ==
    IF ft = <<>> THEN 0 ELSE Occurrences(w, Head(ft)) + TotalOccurrences(w, Tail(ft))
\* Everything after the first marker, to the end of the document.
AfterFirstMarker(doc) == SubSeq(doc, FirstIndex(doc, BODY) + 1, Len(doc))
\* The records a complete output file of this run holds.
CompleteRecords ==
    [i \in 1..BowLength(BOW_LENGTH, Len(dict_sorted)) |-> Line(dict_sorted[i])]

\* C1: pick_random, called on a list of M distinct paths with sample size K, returns
\* a list of length min(M, K) if K > 0 and M otherwise, whose elements are elements
\* of the list it was called on, none of them twice.
C1_SamplerBound ==
    [][Sampled =>
          LET M == Len(arg_list)
              K == DOCS_USED
          IN  /\ Len(tei_files') = IF K > 0 THEN Min(M, K) ELSE M
              /\ Range(tei_files') \subseteq Range(arg_list)
              /\ NoDup(tei_files')]_vars
\* pick_random has returned a sample strictly smaller than the discovered list.
C1_Witness ==
    /\ pc = "extract_tei"
    /\ DOCS_USED > 0
    /\ DOCS_USED < Len(arg_list)
    /\ Len(tei_files) = DOCS_USED

\* C2: a successful output_bow on a table of U entries with requested length N
\* leaves exactly min(U, N) lines if N > 0 and U lines otherwise, never more than U,
\* and they are the first entries of the sorted table, in order.
C2_OutputBound ==
    pc = "done" =>
        LET U == Len(dict_sorted)
            N == BOW_LENGTH
            lines == out_disk.lines
        IN  /\ out_disk.exists
            /\ Len(lines) = IF N > 0 THEN Min(U, N) ELSE U
            /\ Len(lines) <= U
            /\ \A i \in 1..Len(lines) :
                  lines[i] = <<dict_sorted[i][1], dict_sorted[i][2]>>
\* A run that wrote a proper, non-empty prefix of the table.
C2_Witness ==
    /\ pc = "done"
    /\ BOW_LENGTH > 0
    /\ BOW_LENGTH < Len(dict_sorted)
    /\ Len(out_disk.lines) = BOW_LENGTH

\* C3: the table create_bow returns, the lines output_bow writes and the lines of
\* the output file are non-increasing in count from first to last.
C3_SortOrder ==
    /\ Counted => NonIncreasing(dict_sorted)
    /\ NonIncreasing(written)
    /\ NonIncreasing(out_disk.lines)
\* A finished run whose most frequent word was not the first one inserted.
C3_Witness ==
    /\ pc = "done"
    /\ Len(out_disk.lines) >= 2
    /\ out_disk.lines[1][2] > out_disk.lines[2][2]
    /\ out_disk.lines[2][1] = AllWords(flat_text)[1]

\* C4: for every word w of length > 2, the count create_bow stores for w is the sum
\* over the sentences of the occurrences of w, and w is absent from the table
\* exactly when that sum is 0.
C4_CountConservation ==
    Counted =>
        \A w \in Words :
            Len(w) > 2 =>
                /\ (w \notin Keys(dict_sorted)) <=> (TotalOccurrences(w, flat_text) = 0)
                /\ w \in Keys(dict_sorted) =>
                      Value(dict_sorted, w) = TotalOccurrences(w, flat_text)
\* A word counted in two different sentences.
C4_Witness ==
    /\ Counted
    /\ Len(flat_text) >= 2
    /\ \E w \in Keys(dict_sorted) :
          /\ Occurrences(w, flat_text[1]) >= 1
          /\ Occurrences(w, flat_text[2]) >= 1
          /\ Value(dict_sorted, w) >= 2

\* C5: at every point of counting and in the final table no key has length <= 2,
\* and processing a token of length <= 2 leaves the table as it was.
C5_LengthFilter ==
    /\ [](\A w \in Keys(dict_wordfreq) \cup Keys(dict_sorted) : Len(w) > 2)
    /\ [][(/\ pc = "create_bow"
           /\ wi < Len(AllWords(flat_text))
           /\ Len(AllWords(flat_text)[wi + 1]) <= 2)
          => dict_wordfreq' = dict_wordfreq]_vars
\* Counting has passed a short token after it stored a word.
C5_Witness ==
    /\ pc = "create_bow"
    /\ wi >= 2
    /\ Len(AllWords(flat_text)[wi]) <= 2
    /\ dict_wordfreq # <<>>

\* C6: if the root path does not exist or is not readable, the run fails during
\* discovery: it never gets past get_files, and the output file is not touched.
C6_NotFoundAborts ==
    ~root_ok => /\ pc \in {"get_files", "failed", "killed"}
                /\ out_disk = out_old

\* C7: output is all-or-nothing: when the run has ended, however it ended, the
\* output file holds the complete records of the run or is as it was before the run.
C7_AllOrNothing ==
    pc \in Terminal => \/ out_disk = out_old
                       \/ out_disk = [exists |-> TRUE, lines |-> CompleteRecords]

\* C8, as claimed: the list passed to pick_random holds the same paths in the
\* same order after the call.
C8_ArgumentUnchanged ==
    [][Sampled => arg_list' = arg_list]_vars
\* C8, amended: pick_random reorders the list it is passed and changes nothing
\* else: after the call the list holds the same paths, each as often as before, in
\* the shuffled order, and the list returned is its first min(M, K) elements (all M
\* if K <= 0).
C8_ArgumentPermuted ==
    [][Sampled =>
          /\ IsPermutation(arg_list, arg_list')
          /\ tei_files' = SubSeq(arg_list', 1, IF DOCS_USED > 0
                                                THEN Min(Len(arg_list), DOCS_USED)
                                                ELSE Len(arg_list))
          /\ UNCHANGED <<root_ok, DOCS_USED, BOW_LENGTH, tei, done_files, flat_text, wi,
                         dict_wordfreq, dict_sorted, written, out_old, out_disk>>]_vars
\* pick_random has returned on a list of three paths that it left with "c" first
\* and "a" last.
C8_Witness ==
    /\ pc = "extract_tei"
    /\ Len(arg_list) = 3
    /\ arg_list[1] = Path("c")
    /\ arg_list[3] = Path("a")
    /\ tei_files = <<Path("c")>>

\* C9: for a document that contains the marker, the text extracted is everything
\* after the first marker up to the end of the file, text after later markers
\* included.
C9_AllAfterFirstMarker ==
    (pc = "extract_tei" /\ done_files = 1 /\ Contains(tei, BODY)) =>
        flat_text = Sentences(AfterFirstMarker(tei))

\* C10: of two words with equal final count, the one whose first kept occurrence
\* comes earlier in the sentences comes earlier in the table create_bow returns
\* and in the output file.
C10_StableTies ==
    LET first(w) == FirstIndex(AllWords(flat_text), w)
        InOrder(items) ==
            \A i, j \in 1..Len(items) :
                (i < j /\ items[i][2] = items[j][2]) => first(items[i][1]) < first(items[j][1])
    IN  /\ Counted => InOrder(dict_sorted)
        /\ pc = "done" => InOrder(out_disk.lines)
\* A finished run in which the sort moved a word in front of two tied words that
\* were inserted around it.
C10_Witness ==
    /\ pc = "done"
    /\ Len(out_disk.lines) = 3
    /\ out_disk.lines[1][2] > out_disk.lines[2][2]
    /\ out_disk.lines[2][2] = out_disk.lines[3][2]
    /\ FirstIndex(AllWords(flat_text), out_disk.lines[2][1])
         < FirstIndex(AllWords(flat_text), out_disk.lines[1][1])
    /\ FirstIndex(AllWords(flat_text), out_disk.lines[1][1])
         < FirstIndex(AllWords(flat_text), out_disk.lines[3][1])

====
